---- MODULE Spec2Model ----
(***************************************************************************)
(* A model of the miso token codec: ZigZag (src/src/zigzag.rs), Varint     *)
(* (src/src/varint.rs), FreqMap (src/src/freq_map.rs), Header              *)
(* (src/src/header.rs) and the Codec binding (src/src/lib.rs).             *)
(*                                                                         *)
(* Representation of machine integers.  TLC's integers are 32-bit signed,  *)
(* so an i32 is a TLC integer, while a u32 (and a usize) is the sequence   *)
(* of its bits, least-significant bit first.  A byte (u8) is an integer    *)
(* in 0..255.  Every shift, mask and cast of the source is computed on     *)
(* these bit patterns, never as the identity.                              *)
(***************************************************************************)
EXTENDS Integers, Sequences, FiniteSets, TLC

VARIABLES
    op,         \* name of the last operation that was applied
    arg,        \* its argument
    ret,        \* its result
    ids,        \* the token sequence the current FreqMap / payload was built from
    freq,       \* the FreqMap object (freq_map.rs:14-22)
    payload,    \* the encoded payload under construction / on the wire
    ptr_width   \* width of usize on the build target (32 or 64)

vars == <<op, arg, ret, ids, freq, payload, ptr_width>>

(***************************************************************************)
(* Bounds of the model.                                                    *)
(***************************************************************************)
ZRange == 40        \* ZigZag inputs cover -ZRange..ZRange besides the extremes
MaxVals == 2        \* longest u32 sequence handed to varint::encode
MaxBytes == 6       \* longest raw byte stream handed to varint::decode
MaxIds == 4         \* longest token sequence
MaxHdr == 3         \* longest token list of a header built directly
MaxTail == 8        \* most bytes following the 4-byte count in a raw header buffer
MaxBody == 2        \* longest body appended to an encoded header

(***************************************************************************)
(* Machine words.                                                          *)
(***************************************************************************)
W == 32
I32_MAX == 2147483647
I32_MIN == (-2147483647) - 1

Pow2(n) == 2 ^ n

\* The u32 with value n, for 0 <= n < 2^31.
FromNat(n) == [i \in 1..W |-> IF i = W THEN 0 ELSE (n \div Pow2(i - 1)) % 2]

Zero32 == [i \in 1..W |-> 0]
Ones32 == [i \in 1..W |-> 1]

\* `x as u32` for an i32 x: the two's complement bit pattern.
I32ToBits(x) ==
    IF x >= 0 THEN FromNat(x)
    ELSE [FromNat((x + I32_MAX) + 1) EXCEPT ![W] = 1]

RECURSIVE LowSum(_, _)
LowSum(b, n) == IF n = 0 THEN 0 ELSE b[n] * Pow2(n - 1) + LowSum(b, n - 1)

\* `u as i32` for a u32 u: reinterpret the bit pattern.
BitsToI32(b) ==
    IF b[W] = 1 THEN (LowSum(b, W - 1) - I32_MAX) - 1 ELSE LowSum(b, W - 1)

Shl(b, n) == [i \in 1..W |-> IF i - n >= 1 THEN b[i - n] ELSE 0]
Shr(b, n) == [i \in 1..W |-> IF i + n <= W THEN b[i + n] ELSE 0]
Sar(b, n) == [i \in 1..W |-> IF i + n <= W THEN b[i + n] ELSE b[W]]
Xor(a, b) == [i \in 1..W |-> (a[i] + b[i]) % 2]
And(a, b) == [i \in 1..W |-> a[i] * b[i]]
Or(a, b) == [i \in 1..W |-> IF a[i] + b[i] > 0 THEN 1 ELSE 0]
\* Two's complement negation (wrapping): invert and add one.
Neg(b) ==
    LET inv == [i \in 1..W |-> 1 - b[i]]
    IN [i \in 1..W |-> IF \A j \in 1..(i - 1) : inv[j] = 1 THEN 1 - inv[i] ELSE inv[i]]

(***************************************************************************)
(* ZigZag (src/src/zigzag.rs).                                             *)
(***************************************************************************)
\* A plausible slip: a logical instead of an arithmetic right shift.
ZigzagEncodeLogicalShift(value) ==
    LET v == I32ToBits(value) IN Xor(Shl(v, 1), Shr(v, 31))

\* encode: ((value << 1) ^ (value >> 31)) as u32
ZigzagEncode(value) ==
    LET v == I32ToBits(value) IN Xor(Shl(v, 1), Sar(v, 31))

\* decode: ((value >> 1) as i32) ^ (-((value & 1) as i32))
ZigzagDecode(value) ==
    BitsToI32(Xor(Shr(value, 1), Neg(And(value, FromNat(1)))))

I32Samples ==
    (-ZRange..ZRange) \cup
    {I32_MIN, I32_MIN + 1, -123456, -17, 17, 123456, I32_MAX - 1, I32_MAX}

\* u32 samples: every small value, and the top of the range built bitwise.
U32Samples ==
    {FromNat(n) : n \in 0..(2 * ZRange + 1)} \cup
    {FromNat(I32_MAX), FromNat(I32_MAX - 1), FromNat(246911),
     Ones32, [Ones32 EXCEPT ![1] = 0], [Zero32 EXCEPT ![W] = 1],
     [FromNat(1) EXCEPT ![W] = 1]}

Init ==
    /\ op = "init"
    /\ arg = <<>>
    /\ ret = <<>>
    /\ ids = <<>>
    /\ freq = [token_to_mapped |-> <<>>, mapped_to_token |-> <<>>]
    /\ payload = <<>>
    /\ ptr_width \in {32, 64}

\* The library keeps no state between calls (every operation is a synchronous,
\* call-local transform): a call starts from the idle state, and returning
\* drops everything the call owned.
Idle == op = "init"

Return ==
    /\ op # "init"
    /\ op' = "init"
    /\ arg' = <<>>
    /\ ret' = <<>>
    /\ ids' = <<>>
    /\ freq' = [token_to_mapped |-> <<>>, mapped_to_token |-> <<>>]
    /\ payload' = <<>>
    /\ UNCHANGED ptr_width

ZigzagEncodeCall ==
    /\ Idle
    /\ \E x \in I32Samples :
           /\ op' = "zigzag_encode"
           /\ arg' = x
           /\ ret' = ZigzagEncode(x)
           /\ UNCHANGED <<ids, freq, payload, ptr_width>>

ZigzagDecodeCall ==
    /\ Idle
    /\ \E u \in U32Samples :
           /\ op' = "zigzag_decode"
           /\ arg' = u
           /\ ret' = ZigzagDecode(u)
           /\ UNCHANGED <<ids, freq, payload, ptr_width>>

NextZigZag == ZigzagEncodeCall \/ ZigzagDecodeCall \/ Return
SpecZigZag == Init /\ [][NextZigZag]_vars

(***************************************************************************)
(* C9: ZigZag encode and decode are mutually inverse on the full i32/u32   *)
(* domains; encode(x) is 2x for x >= 0 and -2x - 1 for x < 0, so even      *)
(* outputs come from non-negative inputs and odd outputs from negative     *)
(* ones; 0->0, -1->1, 1->2, -2->3, 2->4.                                   *)
(***************************************************************************)
\* The u32 2n + low for 0 <= n < 2^31 and low in {0, 1}, written arithmetically.
TwicePlus(n, low) == [i \in 1..W |-> IF i = 1 THEN low ELSE (n \div Pow2(i - 2)) % 2]

C9_ZigZagBijection ==
    /\ op = "zigzag_encode" =>
          /\ ZigzagDecode(ret) = arg
          /\ arg >= 0 => ret = TwicePlus(arg, 0)
          /\ arg < 0 => ret = TwicePlus(-(arg + 1), 1)
          /\ (ret[1] = 0) <=> (arg >= 0)
          /\ arg = 0 => ret = FromNat(0)
          /\ arg = -1 => ret = FromNat(1)
          /\ arg = 1 => ret = FromNat(2)
          /\ arg = -2 => ret = FromNat(3)
          /\ arg = 2 => ret = FromNat(4)
    /\ op = "zigzag_decode" =>
          /\ ZigzagEncode(ret) = arg
          /\ (arg[1] = 0) <=> (ret >= 0)

C9_Witness ==
    /\ op = "zigzag_encode"
    /\ arg = I32_MIN
    /\ ret = Ones32

(***************************************************************************)
(* Results of fallible operations: Ok(v), Err(message), or a panic.        *)
(***************************************************************************)
Ok(v) == [kind |-> "ok", val |-> v]
Err(m) == [kind |-> "err", msg |-> m]
Panic(m) == [kind |-> "panic", msg |-> m]

(***************************************************************************)
(* Bytes.                                                                  *)
(***************************************************************************)
ByteBit(b, i) == (b \div Pow2(i)) % 2

RECURSIVE ByteAndFrom(_, _, _)
ByteAndFrom(a, b, i) ==
    IF i = 8 THEN 0
    ELSE ByteBit(a, i) * ByteBit(b, i) * Pow2(i) + ByteAndFrom(a, b, i + 1)

\* a & b on u8
ByteAnd(a, b) == ByteAndFrom(a, b, 0)

RECURSIVE ByteOrFrom(_, _, _)
ByteOrFrom(a, b, i) ==
    IF i = 8 THEN 0
    ELSE (IF ByteBit(a, i) + ByteBit(b, i) > 0 THEN Pow2(i) ELSE 0)
         + ByteOrFrom(a, b, i + 1)

\* a | b on u8
ByteOr(a, b) == ByteOrFrom(a, b, 0)

\* `v as u8` for a u32 v: the low eight bits.
LowByte(v) == LowSum(v, 8)

RECURSIVE Flatten(_)
Flatten(ss) == IF ss = <<>> THEN <<>> ELSE Head(ss) \o Flatten(Tail(ss))

RECURSIVE SeqsUpTo(_, _)
\* All sequences over S of length at most n.
SeqsUpTo(S, n) ==
    IF n = 0 THEN {<<>>}
    ELSE LET shorter == SeqsUpTo(S, n - 1)
         IN shorter \cup {Append(q, x) : q \in {r \in shorter : Len(r) = n - 1}, x \in S}

(***************************************************************************)
(* Varint (src/src/varint.rs).                                             *)
(***************************************************************************)
RECURSIVE VarintEncodeValue(_)
\* The inner loop of encode for one value (varint.rs:15-26).
VarintEncodeValue(v) ==
    LET byte == LowByte(And(v, FromNat(127)))
        rest == Shr(v, 7)
    IN IF rest # Zero32
       THEN <<ByteOr(byte, 128)>> \o VarintEncodeValue(rest)
       ELSE <<byte>>

\* A plausible slip: the continuation test looks at the byte just emitted
\* instead of the remaining value, so a value whose next group is zero
\* loses its high groups.
RECURSIVE VarintEncodeValueByteTest(_)
VarintEncodeValueByteTest(v) ==
    LET byte == LowByte(And(v, FromNat(127)))
        rest == Shr(v, 7)
    IN IF rest # Zero32 /\ byte # 0
       THEN <<ByteOr(byte, 128)>> \o VarintEncodeValueByteTest(rest)
       ELSE <<byte>>

VarintEncodeByteTest(values) ==
    Flatten([i \in 1..Len(values) |-> VarintEncodeValueByteTest(values[i])])

\* encode (varint.rs:9-29)
VarintEncode(values) ==
    Flatten([i \in 1..Len(values) |-> VarintEncodeValue(values[i])])

RECURSIVE VarintDecodeFrom(_, _, _, _, _)
\* The loop of decode from byte i on, with the locals out, acc and shift
\* (varint.rs:40-66).
VarintDecodeFrom(bytes, i, out, acc, shift) ==
    IF i > Len(bytes)
    THEN IF shift # 0
         THEN Err("incomplete varint at end of stream")
         ELSE Ok(out)
    ELSE LET b == bytes[i]
             pl == FromNat(ByteAnd(b, 127))
         IN IF shift >= 32
            THEN Err("varint overflow: shift exceeded 31 bits")
            ELSE LET acc2 == Or(acc, Shl(pl, shift))
                 IN IF ByteAnd(b, 128) = 0
                    THEN VarintDecodeFrom(bytes, i + 1, Append(out, acc2), Zero32, 0)
                    ELSE VarintDecodeFrom(bytes, i + 1, out, acc2, shift + 7)

\* decode (varint.rs:35-67)
VarintDecode(bytes) == VarintDecodeFrom(bytes, 1, <<>>, Zero32, 0)

\* u32 values on both sides of every varint length boundary.
VarintValues ==
    {FromNat(0), FromNat(127), FromNat(128), FromNat(300),
     FromNat(16383), FromNat(16384), FromNat(2097152),
     FromNat(268435455), FromNat(268435456), Ones32}

\* Raw bytes: terminators and continuations, with payloads on both sides of
\* the four bits a fifth group may carry.
RawBytes == {15, 16, 128, 255}

VarintEncodeCall ==
    /\ Idle
    /\ \E v \in SeqsUpTo(VarintValues, MaxVals) :
           /\ op' = "varint_encode"
           /\ arg' = v
           /\ ret' = VarintEncode(v)
           /\ payload' = VarintEncode(v)
           /\ UNCHANGED <<ids, freq, ptr_width>>

\* varint::decode applied to the stream encode has just produced; arg keeps
\* the values that were encoded.
VarintDecodeEncoded ==
    /\ op = "varint_encode"
    /\ op' = "varint_roundtrip"
    /\ ret' = VarintDecode(payload)
    /\ UNCHANGED <<arg, ids, freq, payload, ptr_width>>

\* varint::decode applied to an arbitrary byte stream.
VarintDecodeCall ==
    /\ Idle
    /\ \E b \in SeqsUpTo(RawBytes, MaxBytes) :
           /\ op' = "varint_decode"
           /\ arg' = b
           /\ ret' = VarintDecode(b)
           /\ UNCHANGED <<ids, freq, payload, ptr_width>>

NextVarint == VarintEncodeCall \/ VarintDecodeEncoded \/ Return
SpecVarint == Init /\ [][NextVarint]_vars

NextVarintRaw == VarintDecodeCall \/ Return
SpecVarintRaw == Init /\ [][NextVarintRaw]_vars

(***************************************************************************)
(* C3: for every sequence v of u32, varint decode(encode(v)) succeeds and  *)
(* equals v; each value takes 1 to 5 bytes, the continuation bit 0x80 set  *)
(* on every byte of a value but its last, and the stream is the            *)
(* concatenation of the values' encodings.                                 *)
(***************************************************************************)
WellDelimited(e) ==
    /\ Len(e) \in 1..5
    /\ \A j \in 1..(Len(e) - 1) : e[j] >= 128
    /\ e[Len(e)] < 128

C3_VarintRoundTrip ==
    /\ op = "varint_roundtrip" => ret = Ok(arg)
    /\ op = "varint_encode" =>
        /\ LET parts == [i \in 1..Len(arg) |-> VarintEncode(<<arg[i]>>)]
           IN /\ \A i \in 1..Len(arg) : WellDelimited(parts[i])
              /\ ret = Flatten(parts)
        /\ arg = <<FromNat(0)>> => ret = <<0>>
        /\ arg = <<FromNat(127)>> => ret = <<127>>
        /\ arg = <<FromNat(128)>> => ret = <<128, 1>>
        /\ arg = <<FromNat(300)>> => ret = <<172, 2>>

C3_Witness ==
    /\ op = "varint_roundtrip"
    /\ arg = <<Ones32, FromNat(0)>>
    /\ payload = <<255, 255, 255, 255, 15, 0>>
    /\ ret = Ok(arg)

(***************************************************************************)
(* C4: varint decode returns the Overflow error for every byte stream in   *)
(* which the groups of one value denote more than 2^32 - 1: when the value *)
(* runs to a sixth byte, and when its fifth byte carries payload above its *)
(* low 4 bits.  It never returns Ok with a wrapped value.                  *)
(***************************************************************************)
RECURSIVE GroupIndex(_, _)
\* The position (from 0) of byte i within its value: the number of
\* continuation bytes directly before it.
GroupIndex(bytes, i) ==
    IF i = 1 \/ bytes[i - 1] < 128 THEN 0 ELSE 1 + GroupIndex(bytes, i - 1)

ExceedsU32(bytes) ==
    \E i \in 1..Len(bytes) :
        \/ GroupIndex(bytes, i) >= 5
        \/ GroupIndex(bytes, i) = 4 /\ bytes[i] % 128 >= 16

C4_OverflowRejected ==
    (op = "varint_decode" /\ ExceedsU32(arg)) =>
        ret = Err("varint overflow: shift exceeded 31 bits")

(***************************************************************************)
(* Header (src/src/header.rs).                                             *)
(***************************************************************************)
UW == 64

\* A usize holding n, for 0 <= n < 2^31.
UsizeFromNat(n) == [i \in 1..UW |-> IF i >= W THEN 0 ELSE (n \div Pow2(i - 1)) % 2]

\* `u as usize` for a u32 u: zero extension.
U32ToUsize(u) == [i \in 1..UW |-> IF i <= W THEN u[i] ELSE 0]

\* A plausible slip: big-endian byte order on the writing side.
ToBeBytes(u) == [k \in 1..4 |-> LowSum(Shr(u, 8 * (4 - k)), 8)]

\* u32::to_le_bytes / i32::to_le_bytes on a bit pattern
ToLeBytes(u) == [k \in 1..4 |-> LowSum(Shr(u, 8 * (k - 1)), 8)]

\* u32::from_le_bytes / i32::from_le_bytes: the bit pattern of four bytes
FromLeBytes(b4) ==
    [i \in 1..W |-> ByteBit(b4[((i - 1) \div 8) + 1], (i - 1) % 8)]

\* A plausible slip: `len * 4` in wrapping arithmetic instead of checked_mul.
WrappingMul4(n, width) ==
    [kind |-> "some",
     val |-> [i \in 1..UW |-> IF i > 2 /\ i <= width THEN n[i - 2] ELSE 0]]

\* usize::checked_mul(4) on a target whose usize has `width` bits: None when
\* a set bit would be shifted out of the word.
CheckedMul4(n, width) ==
    IF \E i \in 1..UW : i + 2 > width /\ n[i] = 1
    THEN [kind |-> "none"]
    ELSE [kind |-> "some", val |-> [i \in 1..UW |-> IF i > 2 THEN n[i - 2] ELSE 0]]

\* Header::encode (header.rs:38-54); h is [tokens, len].
HeaderEncode(h) ==
    ToLeBytes(FromNat(Len(h.tokens)))
    \o Flatten([i \in 1..Len(h.tokens) |-> ToLeBytes(I32ToBits(h.tokens[i]))])

RECURSIVE HeaderReadTokens(_, _, _, _, _)
\* The token loop of Header::decode (header.rs:87-100): k iterations done,
\* reading the chunk bytes[offset..offset+4] (0-based) next.
HeaderReadTokens(bytes, len, k, offset, tokens) ==
    IF UsizeFromNat(k) = len
    THEN Ok([tokens |-> tokens, len |-> k])
    ELSE IF offset + 4 > Len(bytes)
         THEN Panic("range end index out of range for slice")
         ELSE HeaderReadTokens(bytes, len, k + 1, offset + 4,
                  Append(tokens,
                      BitsToI32(FromLeBytes(SubSeq(bytes, offset + 1, offset + 4)))))

UsizeLess(a, b) ==
    \E i \in 1..UW : a[i] < b[i] /\ \A j \in (i + 1)..UW : a[j] = b[j]

\* A plausible slip: a prefix parse that only requires enough bytes for the
\* declared tokens and ignores what follows them.
HeaderDecodePrefix(bytes, width) ==
    IF Len(bytes) < 4
    THEN Err("header too short: missing length prefix")
    ELSE LET len == U32ToUsize(FromLeBytes(SubSeq(bytes, 1, 4)))
             expected_bytes == CheckedMul4(len, width)
             actual_bytes == UsizeFromNat(Len(bytes) - 4)
         IN IF expected_bytes.kind = "none"
            THEN Err("header length overflow")
            ELSE IF UsizeLess(actual_bytes, expected_bytes.val)
                 THEN Err("header size mismatch")
                 ELSE HeaderReadTokens(bytes, len, 0, 4, <<>>)

\* Header::decode (header.rs:61-101) on a target with `width`-bit usize.
HeaderDecode(bytes, width) ==
    IF Len(bytes) < 4
    THEN Err("header too short: missing length prefix")
    ELSE LET len == U32ToUsize(FromLeBytes(SubSeq(bytes, 1, 4)))
             expected_bytes == CheckedMul4(len, width)
             actual_bytes == UsizeFromNat(Len(bytes) - 4)
         IN IF expected_bytes.kind = "none"
            THEN Err("header length overflow")
            ELSE IF actual_bytes # expected_bytes.val
                 THEN Err("header size mismatch")
                 ELSE HeaderReadTokens(bytes, len, 0, 4, <<>>)

Tokens == {I32_MIN, -5, 7, I32_MAX}

\* Count fields: small counts, counts whose product with 4 exceeds 32 bits,
\* and counts whose product with 4 wraps to a small number in 32 bits.
CountPrefixes ==
    {<<0, 0, 0, 0>>, <<1, 0, 0, 0>>, <<2, 0, 0, 0>>, <<3, 0, 0, 0>>,
     <<0, 0, 0, 64>>, <<1, 0, 0, 64>>, <<2, 0, 0, 128>>, <<255, 255, 255, 255>>}

TailBytes == {0, 255}

HeaderBuffers ==
    SeqsUpTo(TailBytes, 3)
    \cup {p \o t : p \in CountPrefixes, t \in SeqsUpTo(TailBytes, MaxTail)}

HeaderEncodeCall ==
    /\ Idle
    /\ \E t \in SeqsUpTo(Tokens, MaxHdr) :
           /\ op' = "header_encode"
           /\ arg' = [tokens |-> t, len |-> Len(t)]
           /\ ret' = HeaderEncode([tokens |-> t, len |-> Len(t)])
           /\ payload' = HeaderEncode([tokens |-> t, len |-> Len(t)])
           /\ UNCHANGED <<ids, freq, ptr_width>>

\* Header::decode applied to the bytes Header::encode has just produced; arg
\* keeps the header that was encoded.
HeaderDecodeEncoded ==
    /\ op = "header_encode"
    /\ op' = "header_roundtrip"
    /\ ret' = HeaderDecode(payload, ptr_width)
    /\ UNCHANGED <<arg, ids, freq, payload, ptr_width>>

\* Header::decode applied to an arbitrary byte buffer.
HeaderDecodeCall ==
    /\ Idle
    /\ \E b \in HeaderBuffers :
           /\ op' = "header_decode"
           /\ arg' = b
           /\ ret' = HeaderDecode(b, ptr_width)
           /\ UNCHANGED <<ids, freq, payload, ptr_width>>

BodyBytes == {0, 128}

\* Header::decode applied to a whole payload: an encoded header of the tokens
\* t followed by a body (arg keeps the body, ids the header's tokens).
HeaderDecodePayload ==
    /\ Idle
    /\ \E t \in SeqsUpTo(Tokens, MaxHdr), body \in SeqsUpTo(BodyBytes, MaxBody) :
           /\ op' = "header_decode_payload"
           /\ ids' = t
           /\ arg' = body
           /\ payload' = HeaderEncode([tokens |-> t, len |-> Len(t)]) \o body
           /\ ret' = HeaderDecode(HeaderEncode([tokens |-> t, len |-> Len(t)]) \o body,
                                  ptr_width)
           /\ UNCHANGED <<freq, ptr_width>>

NextHeader ==
    \/ HeaderEncodeCall
    \/ HeaderDecodeEncoded
    \/ HeaderDecodeCall
    \/ HeaderDecodePayload
    \/ Return
SpecHeader == Init /\ [][NextHeader]_vars

(***************************************************************************)
(* C5: for every Header h, Header::decode(Header::encode(h)) succeeds and  *)
(* equals h (same tokens in the same order, len = number of tokens); the   *)
(* encoded bytes are a 4-byte little-endian count followed by that many    *)
(* 4-byte little-endian tokens.                                            *)
(***************************************************************************)
\* Byte k (1 = least significant) of the two's complement of t, arithmetically.
LeByteOf(t, k) ==
    IF t >= 0 THEN (t \div Pow2(8 * (k - 1))) % 256
    ELSE 255 - (((-(t + 1)) \div Pow2(8 * (k - 1))) % 256)

C5_HeaderRoundTrip ==
    /\ op = "header_roundtrip" =>
          /\ ret = Ok(arg)
          /\ ret.val.tokens = arg.tokens
          /\ ret.val.len = Len(arg.tokens)
    /\ op = "header_encode" =>
          /\ Len(ret) = 4 + 4 * Len(arg.tokens)
          /\ \A k \in 1..4 : ret[k] = LeByteOf(Len(arg.tokens), k)
          /\ \A i \in 1..Len(arg.tokens) : \A k \in 1..4 :
                 ret[4 * i + k] = LeByteOf(arg.tokens[i], k)

C5_Witness ==
    /\ op = "header_roundtrip"
    /\ arg.tokens = <<I32_MIN, -5>>
    /\ payload = <<2, 0, 0, 0, 0, 0, 0, 128, 251, 255, 255, 255>>
    /\ ret.kind = "ok"

(***************************************************************************)
(* C6: for every byte buffer b, Header::decode(b) neither panics nor reads *)
(* out of bounds, and returns Ok exactly when len(b) >= 4 and len(b) - 4   *)
(* is 4 times the little-endian u32 count in b[0..4]; otherwise an error.  *)
(***************************************************************************)
\* len(b) - 4 = 4 * count, on the count's bytes: len(b) - 4 is a multiple of
\* 4 whose quotient has exactly the count's four little-endian bytes.
SizeMatches(b) ==
    /\ Len(b) >= 4
    /\ (Len(b) - 4) % 4 = 0
    /\ \A k \in 1..4 : b[k] = LeByteOf((Len(b) - 4) \div 4, k)

C6_HeaderDecodeTotal ==
    op = "header_decode" =>
        /\ ret.kind \in {"ok", "err"}
        /\ (ret.kind = "ok") <=> SizeMatches(arg)
        /\ ret.kind = "ok" => ret.val.len = (Len(arg) - 4) \div 4

\* A buffer whose size matches its count, accepted on a 32-bit target.
C6_Witness ==
    /\ op = "header_decode"
    /\ ptr_width = 32
    /\ arg = <<2, 0, 0, 0, 0, 255, 0, 255, 255, 0, 255, 0>>
    /\ ret = Ok([tokens |-> <<-16711936, 16711935>>, len |-> 2])

(***************************************************************************)
(* C10: for every payload made of an encoded header of N tokens followed   *)
(* by a body of any length, Header::decode applied to the payload succeeds,*)
(* returns the N tokens and reports 4 + 4N bytes consumed, leaving the     *)
(* rest as the body.                                                       *)
(***************************************************************************)
C10_HeaderDecodeFromFront ==
    op = "header_decode_payload" =>
        /\ ret.kind = "ok"
        /\ ret.val.tokens = ids
        /\ 4 + 4 * ret.val.len = Len(payload) - Len(arg)

\* C10 as amended: Header::decode accepts the payload exactly when the body
\* is empty, then returning the N tokens in order with len = N and nothing
\* else (no count of consumed bytes); with a non-empty body it returns the
\* size-mismatch error.  Applied to the first 4 + 4N bytes alone it always
\* returns the N tokens.
C10_HeaderDecodeExactOnly ==
    op = "header_decode_payload" =>
        /\ arg = <<>> => ret = Ok([tokens |-> ids, len |-> Len(ids)])
        /\ arg # <<>> => ret = Err("header size mismatch")
        /\ HeaderDecode(SubSeq(payload, 1, 4 + 4 * Len(ids)), ptr_width)
               = Ok([tokens |-> ids, len |-> Len(ids)])

C10_Witness ==
    /\ op = "header_decode_payload"
    /\ ids = <<7, -5>>
    /\ arg = <<128, 0>>
    /\ ret = Err("header size mismatch")

(***************************************************************************)
(* FreqMap (src/src/freq_map.rs).                                          *)
(***************************************************************************)
Some(v) == [kind |-> "some", val |-> v]
None == [kind |-> "none"]

Range(q) == {q[i] : i \in DOMAIN q}

\* The enumerations of the finite set S: the orders in which a HashMap
\* holding the keys S may iterate.
Orders(S) ==
    {q \in [1..Cardinality(S) -> S] : \A i, j \in DOMAIN q : q[i] = q[j] => i = j}

\* A plausible slip: the comparator without its tie-break on the token ID.
EntryCmpNoTieBreak(a, b) ==
    IF b[2] < a[2] THEN "Less"
    ELSE IF b[2] > a[2] THEN "Greater"
    ELSE "Equal"

\* The comparator of sort_by (freq_map.rs:45-48) on entries <<token, count>>:
\* b.1.cmp(&a.1).then_with(|| a.0.cmp(&b.0))
EntryCmp(a, b) ==
    IF b[2] < a[2] THEN "Less"
    ELSE IF b[2] > a[2] THEN "Greater"
    ELSE IF a[1] < b[1] THEN "Less"
    ELSE IF a[1] > b[1] THEN "Greater"
    ELSE "Equal"

\* Insert e into the sorted sequence q before the first element it precedes.
SortInsert(q, e) ==
    LET before == {i \in 1..Len(q) : EntryCmp(e, q[i]) = "Less"}
        at == IF before = {} THEN Len(q) + 1
              ELSE CHOOSE i \in before : \A j \in before : i <= j
    IN SubSeq(q, 1, at - 1) \o <<e>> \o SubSeq(q, at, Len(q))

RECURSIVE SortFrom(_, _, _)
SortFrom(entries, i, sorted) ==
    IF i > Len(entries) THEN sorted
    ELSE SortFrom(entries, i + 1, SortInsert(sorted, entries[i]))

\* slice::sort_by: a stable sort, here by insertion.
SortBy(entries) == SortFrom(entries, 1, <<>>)

\* FreqMap::from_token_ids (freq_map.rs:32-63); order is the iteration order
\* of the counts HashMap, which the language leaves unspecified.
FromTokenIds(token_ids, order) ==
    LET counts == [t \in Range(token_ids) |->
                      Cardinality({i \in DOMAIN token_ids : token_ids[i] = t})]
        entries == [i \in 1..Len(order) |-> <<order[i], counts[order[i]]>>]
        sorted == SortBy(entries)
        at(t) == CHOOSE i \in 1..Len(sorted) :
                     /\ sorted[i][1] = t
                     /\ \A j \in 1..Len(sorted) : sorted[j][1] = t => j <= i
    IN [token_to_mapped |-> [t \in Range(token_ids) |-> at(t) - 1],
        mapped_to_token |-> [i \in 1..Len(sorted) |-> sorted[i][1]]]

\* FreqMap::map_token (freq_map.rs:70-72)
MapToken(f, token) ==
    IF token \in DOMAIN f.token_to_mapped
    THEN Some(f.token_to_mapped[token])
    ELSE None

\* A plausible slip: the range guard written `mapped <= 0`.
UnmapTokenOffByOne(f, mapped) ==
    IF mapped <= 0 THEN None
    ELSE IF mapped < Len(f.mapped_to_token)
         THEN Some(f.mapped_to_token[mapped + 1])
         ELSE None

\* FreqMap::unmap_token (freq_map.rs:79-84)
UnmapToken(f, mapped) ==
    IF mapped < 0 THEN None
    ELSE IF mapped < Len(f.mapped_to_token)
         THEN Some(f.mapped_to_token[mapped + 1])
         ELSE None

\* FreqMap::ordered_tokens (freq_map.rs:89-91)
OrderedTokens(f) == f.mapped_to_token

FreqOps == {"from_token_ids", "map_token", "unmap_token"}

\* Tokens asked of map_token: those of the samples and one never used.
TokenQueries == Tokens \cup {0}
\* Ranks asked of unmap_token: negative, in range, and past the end.
RankQueries == {I32_MIN, -1, I32_MAX} \cup (0..(MaxIds + 1))

FromTokenIdsCall ==
    /\ Idle
    /\ \E s \in SeqsUpTo(Tokens, MaxIds) :
           \E order \in Orders(Range(s)) :
               /\ op' = "from_token_ids"
               /\ arg' = s
               /\ ids' = s
               /\ freq' = FromTokenIds(s, order)
               /\ ret' = FromTokenIds(s, order)
               /\ UNCHANGED <<payload, ptr_width>>

\* map_token and unmap_token take &self and leave the map as it is, so a
\* query of a map that has already been queried adds nothing: each query is
\* taken on the map as from_token_ids built it.
MapTokenCall ==
    /\ op = "from_token_ids"
    /\ \E t \in TokenQueries :
           /\ op' = "map_token"
           /\ arg' = t
           /\ ret' = MapToken(freq, t)
           /\ UNCHANGED <<ids, freq, payload, ptr_width>>

UnmapTokenCall ==
    /\ op = "from_token_ids"
    /\ \E r \in RankQueries :
           /\ op' = "unmap_token"
           /\ arg' = r
           /\ ret' = UnmapToken(freq, r)
           /\ UNCHANGED <<ids, freq, payload, ptr_width>>

NextFreqMap == FromTokenIdsCall \/ MapTokenCall \/ UnmapTokenCall \/ Return
SpecFreqMap == Init /\ [][NextFreqMap]_vars

Count(q, t) == Cardinality({i \in DOMAIN q : q[i] = t})

\* The rearrangements of the sequence q.
Rearrangements(q) ==
    {[i \in 1..Len(q) |-> q[f[i]]] : f \in Orders(1..Len(q))}

(***************************************************************************)
(* C7: ordered_tokens() of FreqMap::from_token_ids(ids) lists each         *)
(* distinct token of ids exactly once, by occurrence count descending and  *)
(* token ID ascending among equal counts; the map depends only on the      *)
(* multiset of ids; map_token(t) is the position of t in that list.        *)
(***************************************************************************)
C7_FreqOrdering ==
    op \in FreqOps =>
        LET o == OrderedTokens(freq)
        IN /\ Range(o) = Range(ids)
           /\ Len(o) = Cardinality(Range(ids))
           /\ \A i, j \in 1..Len(o) : i < j =>
                  \/ Count(ids, o[i]) > Count(ids, o[j])
                  \/ Count(ids, o[i]) = Count(ids, o[j]) /\ o[i] < o[j]
           /\ \A i \in 1..Len(o) : MapToken(freq, o[i]) = Some(i - 1)
           /\ op = "from_token_ids" =>
                  \A p \in Rearrangements(ids) : \A order \in Orders(Range(p)) :
                      FromTokenIds(p, order) = freq

C7_Witness ==
    /\ op = "from_token_ids"
    /\ ids = <<7, I32_MIN, 7>>
    /\ OrderedTokens(freq) = <<7, I32_MIN>>

(***************************************************************************)
(* C8: with d distinct tokens, map_token(unmap_token(r)) = r for every r   *)
(* in [0, d); unmap_token(map_token(t)) = t for every token t of the       *)
(* sequence; the ranks are exactly [0, d); map_token is None for a token   *)
(* not in the sequence and unmap_token is None for r < 0 or r >= d.        *)
(***************************************************************************)
C8_RankInverse ==
    op \in FreqOps =>
        LET d == Cardinality(Range(ids))
        IN /\ \A r \in 0..(d - 1) :
                  /\ UnmapToken(freq, r).kind = "some"
                  /\ MapToken(freq, UnmapToken(freq, r).val) = Some(r)
           /\ \A t \in Range(ids) :
                  /\ MapToken(freq, t).kind = "some"
                  /\ UnmapToken(freq, MapToken(freq, t).val) = Some(t)
           /\ {MapToken(freq, t).val : t \in Range(ids)} = 0..(d - 1)
           /\ (op = "map_token" /\ arg \notin Range(ids)) => ret = None
           /\ (op = "map_token" /\ arg \in Range(ids)) => ret.kind = "some"
           /\ (op = "unmap_token" /\ (arg < 0 \/ arg >= d)) => ret = None
           /\ (op = "unmap_token" /\ arg >= 0 /\ arg < d) => ret.kind = "some"

C8_Witness ==
    /\ op = "unmap_token"
    /\ ids = <<7, -5, 7>>
    /\ arg = 2
    /\ ret = None

(***************************************************************************)
(* Codec: the binding of src/src/lib.rs, and the orchestrator codec_core,  *)
(* which lib.rs declares (lib.rs:4) and whose file is absent: it is        *)
(* modelled from sections 4.5 and 6 of the specification, on top of the    *)
(* FreqMap, Header, ZigZag and Varint operations above.                    *)
(***************************************************************************)
\* Header::from_freq_map (header.rs:27-31)
HeaderFromFreqMap(f) ==
    [tokens |-> OrderedTokens(f), len |-> Len(OrderedTokens(f))]

\* Codec::ping (lib.rs:19-21)
Codec_ping == Ok("pong")

\* Codec::encode_token_ids (lib.rs:23-25): unimplemented!()
Codec_encode_token_ids(token_ids, gzip) == Panic("not implemented")

\* Codec::decode_token_ids (lib.rs:27-29): unimplemented!()
Codec_decode_token_ids(bytes, gzip) == Panic("not implemented")

\* CodecError::InvalidPayload (errors.rs:5-6)
InvalidPayload == Err("invalid payload")

\* Encode steps 2-7: ranks, deltas from a baseline of 0, ZigZag, Varint.
CoreEncode(token_ids, order) ==
    LET f == FromTokenIds(token_ids, order)
        header_bytes == HeaderEncode(HeaderFromFreqMap(f))
        rank(i) == MapToken(f, token_ids[i]).val
        delta(i) == IF i = 1 THEN rank(1) - 0 ELSE rank(i) - rank(i - 1)
        body == VarintEncode([i \in 1..Len(token_ids) |-> ZigzagEncode(delta(i))])
    IN header_bytes \o body

\* a + b on i32, or "none" when the sum leaves the i32 range.
CheckedAddI32(a, b) ==
    IF (b > 0 /\ a > I32_MAX - b) \/ (b < 0 /\ a < I32_MIN - b)
    THEN None
    ELSE Some(a + b)

RECURSIVE CoreUnrank(_, _, _, _, _)
\* Decode steps 5-7 from value i on: ZigZag-decode, running sum, lookup.
CoreUnrank(values, tokens, i, prev, out) ==
    IF i > Len(values) THEN Ok(out)
    ELSE LET r == CheckedAddI32(prev, ZigzagDecode(values[i]))
         IN IF r.kind = "none" \/ r.val < 0 \/ r.val >= Len(tokens)
            THEN InvalidPayload
            ELSE CoreUnrank(values, tokens, i + 1, r.val,
                            Append(out, tokens[r.val + 1]))

\* Decode steps 2-8.  The header is the prefix of the payload that
\* Header::decode accepts (4 + 4N bytes); the rest is the body.
CoreDecode(bytes, width) ==
    LET ks == {k \in 4..Len(bytes) :
                  HeaderDecode(SubSeq(bytes, 1, k), width).kind = "ok"}
    IN IF ks = {}
       THEN InvalidPayload
       ELSE LET k == CHOOSE x \in ks : TRUE
                header == HeaderDecode(SubSeq(bytes, 1, k), width).val
                values == VarintDecode(SubSeq(bytes, k + 1, Len(bytes)))
            IN IF values.kind # "ok"
               THEN InvalidPayload
               ELSE CoreUnrank(values.val, header.tokens, 1, 0, <<>>)

PingCall ==
    /\ Idle
    /\ op' = "ping"
    /\ arg' = <<>>
    /\ ret' = Codec_ping
    /\ UNCHANGED <<ids, freq, payload, ptr_width>>

EncodeTokenIdsCall ==
    /\ Idle
    /\ \E s \in SeqsUpTo(Tokens, MaxIds), gzip \in BOOLEAN :
           /\ op' = "encode_token_ids"
           /\ arg' = [token_ids |-> s, gzip |-> gzip]
           /\ ret' = Codec_encode_token_ids(s, gzip)
           /\ UNCHANGED <<ids, freq, payload, ptr_width>>

DecodeTokenIdsCall ==
    /\ Idle
    /\ \E s \in SeqsUpTo(Tokens, MaxIds), gzip \in BOOLEAN :
           \E order \in Orders(Range(s)) :
               /\ op' = "decode_token_ids"
               /\ arg' = [payload |-> CoreEncode(s, order), gzip |-> gzip]
               /\ ret' = Codec_decode_token_ids(CoreEncode(s, order), gzip)
               /\ UNCHANGED <<ids, freq, payload, ptr_width>>

CoreEncodeCall ==
    /\ Idle
    /\ \E s \in SeqsUpTo(Tokens, MaxIds) :
           \E order \in Orders(Range(s)) :
               /\ op' = "core_encode"
               /\ arg' = s
               /\ ids' = s
               /\ freq' = FromTokenIds(s, order)
               /\ payload' = CoreEncode(s, order)
               /\ ret' = CoreEncode(s, order)
               /\ UNCHANGED ptr_width

\* The payload loses its last byte on the way to the decoder.
TruncatePayload ==
    /\ op = "core_encode"
    /\ op' = "truncate"
    /\ payload' = SubSeq(payload, 1, Len(payload) - 1)
    /\ UNCHANGED <<arg, ret, ids, freq, ptr_width>>

CoreDecodeCall ==
    /\ op \in {"core_encode", "truncate"}
    /\ op' = IF op = "truncate" THEN "core_decode_truncated" ELSE "core_decode"
    /\ arg' = payload
    /\ ret' = CoreDecode(payload, ptr_width)
    /\ UNCHANGED <<ids, freq, payload, ptr_width>>

NextCodec ==
    \/ PingCall
    \/ EncodeTokenIdsCall
    \/ DecodeTokenIdsCall
    \/ CoreEncodeCall
    \/ TruncatePayload
    \/ CoreDecodeCall
    \/ Return
SpecCodec == Init /\ [][NextCodec]_vars

\* The orchestrator as specified does round-trip an untouched payload.
CoreRoundTrip == op = "core_decode" => ret = Ok(ids)

(***************************************************************************)
(* C1: for every sequence ids of i32 token IDs and both values of the      *)
(* flag, the public encode never fails and the public decode of its        *)
(* result, with the same flag, returns exactly ids.                        *)
(***************************************************************************)
C1_PublicRoundTrip ==
    op = "encode_token_ids" =>
        /\ ret.kind = "ok"
        /\ Codec_decode_token_ids(ret.val, arg.gzip) = Ok(arg.token_ids)

(***************************************************************************)
(* C2: for every valid encoded payload of a non-empty token sequence,      *)
(* removing the last byte makes decode return an error, never a token      *)
(* sequence, also when the last body value is a single-byte varint.        *)
(***************************************************************************)
C2_TruncationRejected ==
    (op = "core_decode_truncated" /\ ids # <<>>) => ret.kind = "err"

====
